---- MODULE Spec2Model ----
(***************************************************************************)
(* mangarn: the file-name parser (internal/parser/parser.go) and the CLI   *)
(* run that groups the parsed pages and writes one cbz archive per         *)
(* (volume, chapter) bucket (cmd/mangarn/main.go).                         *)
(*                                                                         *)
(* Strings are sequences of one-character strings.  A uint is a sequence   *)
(* of decimal digit values (0..9), most significant first, without leading *)
(* zeros: 2^64 does not fit TLC's integers, and the overflow of            *)
(* strconv.ParseUint is what several properties are about.                 *)
(***************************************************************************)
EXTENDS Integers, Sequences, FiniteSets, TLC

VARIABLES
    name,       \* parser run: the file name handed to Parse
    ppc,        \* parser run: "call" | "returned" | "panicked"
    ret,        \* parser run: what Parse returned, [page, err]
    dir,        \* CLI run: the entries of the working directory, as os.ReadDir lists them
    pc,         \* CLI run: position in main
    pages,      \* CLI run: main's pages slice
    title,      \* CLI run: main's title
    volMap,     \* CLI run: main's volMap, volume -> pages
    volsLeft,   \* CLI run: keys of volMap the outer range loop has not visited
    curVol,     \* CLI run: the outer loop's vol
    chapMap,    \* CLI run: the current volume's chapMap, chapter -> pages
    chapsLeft,  \* CLI run: keys of chapMap the inner range loop has not visited
    outputDir,  \* file system: whether ./output exists
    archives,   \* file system: ./output/<name> -> [entries, complete, run]
    writes,     \* history: the writePages calls made, in order
    exitCode,   \* CLI run: main's exitCode
    status      \* the process's exit status once it has exited

vars == <<name, ppc, ret, dir, pc, pages, title, volMap, volsLeft, curVol,
          chapMap, chapsLeft, outputDir, archives, writes, exitCode, status>>

parserVars == <<name, ppc, ret>>

mainVars == <<dir, pc, pages, title, volMap, volsLeft, curVol, chapMap,
              chapsLeft, outputDir, archives, writes, exitCode, status>>

----------------------------------------------------------------------------
(* Characters and strings *)

Range(f) == {f[i] : i \in DOMAIN f}

Min(S) == CHOOSE x \in S : \A y \in S : x <= y

DigitSeq == <<"0","1","2","3","4","5","6","7","8","9">>

LowerSeq == <<"a","b","c","d","e","f","g","h","i","j","k","l","m","n","o","p","q","r","s","t","u","v","w","x","y","z">>

UpperSeq == <<"A","B","C","D","E","F","G","H","I","J","K","L","M","N","O","P","Q","R","S","T","U","V","W","X","Y","Z">>

Digits == Range(DigitSeq)

Letters == Range(LowerSeq) \cup Range(UpperSeq)

\* \d and [0-9]
IsDigit(c) == c \in Digits

\* [a-zA-Z]
IsLetter(c) == c \in Letters

\* \s: [\t\n\f\r ]
IsSpace(c) == c \in {" ", "\t", "\n", "\f", "\r"}

\* What At yields outside the string: a value no character class holds.
NoChar == ""

At(s, i) == IF i >= 1 /\ i <= Len(s) THEN s[i] ELSE NoChar

HasPrefixAt(s, i, t) ==
    /\ i >= 1
    /\ i + Len(t) - 1 <= Len(s)
    /\ \A k \in 1..Len(t) : s[i + k - 1] = t[k]

\* The index after the longest digit run starting at i (a greedy \d+).
DigitRunEnd(s, i) ==
    IF i > Len(s) THEN i ELSE Min({j \in i..(Len(s) + 1) : ~IsDigit(At(s, j))})

\* s[b..e-1]
Slice(s, b, e) == SubSeq(s, b, e - 1)

----------------------------------------------------------------------------
(* strconv.ParseUint(s, 10, 64) and the %d verb *)

DigitVal(c) == CHOOSE d \in 0..9 : DigitSeq[d + 1] = c

\* ^uint(0) = 2^64 - 1 = 18446744073709551615
MaxUint64 == <<1,8,4,4,6,7,4,4,0,7,3,7,0,9,5,5,1,6,1,5>>

Zero == <<0>>

StripZeros(d) ==
    LET nz == {i \in 1..Len(d) : d[i] # 0}
    IN  IF nz = {} THEN Zero ELSE SubSeq(d, Min(nz), Len(d))

\* a < b for two uints
UintLess(a, b) ==
    \/ Len(a) < Len(b)
    \/ /\ Len(a) = Len(b)
       /\ \E i \in 1..Len(a) : a[i] < b[i] /\ \A j \in 1..(i - 1) : a[j] = b[j]

ParseUint(s) ==
    IF s = <<>> \/ \E i \in 1..Len(s) : ~IsDigit(s[i])
    THEN [err |-> "syntax", val |-> Zero]
    ELSE LET v == StripZeros([i \in 1..Len(s) |-> DigitVal(s[i])])
         IN  IF UintLess(MaxUint64, v)
             THEN [err |-> "range", val |-> MaxUint64]
             ELSE [err |-> "nil", val |-> v]

\* fmt's %d of a uint
FormatUint(v) == [i \in 1..Len(v) |-> DigitSeq[v[i] + 1]]

----------------------------------------------------------------------------
(* The regular expressions.  Each operator is FindStringSubmatch of the    *)
(* expression on s: <<>> when nothing matches, else the leftmost match     *)
(* (leftmost-first, as Go's regexp) followed by its capture groups, an     *)
(* unmatched group being the empty string.                                 *)

Vol == <<"V","o","l">>
Volume == <<"V","o","l","u","m","e">>
Ch == <<"C","h">>
Chapter == <<"C","h","a","p","t","e","r">>

\* (?:T1|T2|T3)(?:\.\s)?(\d+) tried at i: where the group starts, or 0.
UintMarkerAt(s, i, tokens) ==
    LET cap(k) ==
            LET j == i + Len(tokens[k])
            IN  IF ~HasPrefixAt(s, i, tokens[k]) THEN 0
                ELSE IF At(s, j) = "." /\ IsSpace(At(s, j + 1)) /\ IsDigit(At(s, j + 2))
                     THEN j + 2
                ELSE IF IsDigit(At(s, j)) THEN j
                ELSE 0
        ok == {k \in 1..Len(tokens) : cap(k) # 0}
    IN  IF ok = {} THEN 0 ELSE cap(Min(ok))

FindUintMarker(s, tokens) ==
    LET starts == {i \in 1..Len(s) : UintMarkerAt(s, i, tokens) # 0}
    IN  IF starts = {} THEN <<>>
        ELSE LET i == Min(starts)
                 b == UintMarkerAt(s, i, tokens)
                 e == DigitRunEnd(s, b)
             IN  <<Slice(s, i, e), Slice(s, b, e)>>

\* (?:Vol|Volume|v)(?:\.\s)?(?P<uint>\d+)
volRegexp(s) == FindUintMarker(s, <<Vol, Volume, <<"v">>>>)

\* (?:Ch|Chapter|c)(?:\.\s)?(?P<uint>\d+)
chapRegexp(s) == FindUintMarker(s, <<Ch, Chapter, <<"c">>>>)

\* (?P<uint>^\d+)
absRegexp(s) ==
    IF IsDigit(At(s, 1))
    THEN LET e == DigitRunEnd(s, 1) IN <<Slice(s, 1, e), Slice(s, 1, e)>>
    ELSE <<>>

\* [^.0-9]
NotDotDigit(c) == c # NoChar /\ c # "." /\ ~IsDigit(c)

\* \.[a-zA-Z]+$ at k
ExtensionAt(s, k) ==
    /\ At(s, k) = "."
    /\ k + 1 <= Len(s)
    /\ \A j \in (k + 1)..Len(s) : IsLetter(s[j])

\* (?:p(\d+))|[^.0-9]{2}(?:(\d+)\.[a-zA-Z]+$) tried at i: 1 or 2, the
\* alternative that matches, or 0.
PnumAltAt(s, i) ==
    IF At(s, i) = "p" /\ IsDigit(At(s, i + 1)) THEN 1
    ELSE IF /\ NotDotDigit(At(s, i))
            /\ NotDotDigit(At(s, i + 1))
            /\ IsDigit(At(s, i + 2))
            /\ ExtensionAt(s, DigitRunEnd(s, i + 2))
         THEN 2
    ELSE 0

\* pnumRegexp taking the last match in the name instead of the first.
pnumRegexpLastMatch(s) ==
    LET starts == {i \in 1..Len(s) : PnumAltAt(s, i) # 0}
    IN  IF starts = {} THEN <<>>
        ELSE LET i == CHOOSE x \in starts : \A y \in starts : y <= x
             IN  IF PnumAltAt(s, i) = 1
                 THEN LET e == DigitRunEnd(s, i + 1)
                      IN  <<Slice(s, i, e), Slice(s, i + 1, e), <<>>>>
                 ELSE LET e == DigitRunEnd(s, i + 2)
                      IN  <<Slice(s, i, Len(s) + 1), <<>>, Slice(s, i + 2, e)>>

pnumRegexp(s) ==
    LET starts == {i \in 1..Len(s) : PnumAltAt(s, i) # 0}
    IN  IF starts = {} THEN <<>>
        ELSE LET i == Min(starts)
             IN  IF PnumAltAt(s, i) = 1
                 THEN LET e == DigitRunEnd(s, i + 1)
                      IN  <<Slice(s, i, e), Slice(s, i + 1, e), <<>>>>
                 ELSE LET e == DigitRunEnd(s, i + 2)
                      IN  <<Slice(s, i, Len(s) + 1), <<>>, Slice(s, i + 2, e)>>

\* [a-zA-Z'_ ]
TitleChar(c) == IsLetter(c) \/ c \in {"'", "_", " "}

\* [_ ]
Separator(c) == c \in {"_", " "}

\* (?:[cvp]|(?:Vol|Volume|Chapter|Ch)\. )\d+ tried at k: the index of the
\* first digit, or 0.
TitleMarkerAt(s, k) ==
    IF At(s, k) \in {"c", "v", "p"} /\ IsDigit(At(s, k + 1)) THEN k + 1
    ELSE LET kws == <<Vol, Volume, Chapter, Ch>>
             d(n) == k + Len(kws[n]) + 2
             ok == {n \in 1..Len(kws) :
                        /\ HasPrefixAt(s, k, kws[n])
                        /\ At(s, k + Len(kws[n])) = "."
                        /\ At(s, k + Len(kws[n]) + 1) = " "
                        /\ IsDigit(At(s, d(n)))}
         IN  IF ok = {} THEN 0 ELSE d(Min(ok))

\* [_ ]?(?:...)\d+ tried at k: the index of the first digit, or 0.
TitleTailAt(s, k) ==
    IF Separator(At(s, k)) /\ TitleMarkerAt(s, k + 1) # 0
    THEN TitleMarkerAt(s, k + 1)
    ELSE TitleMarkerAt(s, k)

\* ([a-zA-Z'_ ]+?)[_ ]?(?:...)\d+ tried at t: the length of the shortest
\* title the rest of the expression matches after, or 0.
TitleLenAt(s, t) ==
    LET ls == {n \in 1..(Len(s) - t + 1) :
                   /\ \A j \in t..(t + n - 1) : TitleChar(s[j])
                   /\ TitleTailAt(s, t + n) # 0}
    IN  IF ls = {} THEN 0 ELSE Min(ls)

\* The whole expression tried at i: where the title group starts, or 0.
\* The leading [_ ]? is greedy: the separator is taken when that matches.
TitleStartAt(s, i) ==
    IF Separator(At(s, i)) /\ TitleLenAt(s, i + 1) # 0 THEN i + 1
    ELSE IF TitleLenAt(s, i) # 0 THEN i
    ELSE 0

\* The match that starts at i, its title group being the n characters from t.
TitleGroups(s, i, t, n) ==
    <<Slice(s, i, DigitRunEnd(s, TitleTailAt(s, t + n))), Slice(s, t, t + n)>>

\* The match of the whole expression that starts at i.
TitleMatchAt(s, i) ==
    TitleGroups(s, i, TitleStartAt(s, i), TitleLenAt(s, TitleStartAt(s, i)))

\* [_ ]?(?P<title>[a-zA-Z'_ ]+?)[_ ]?(?:[cvp]|(?:Vol|Volume|Chapter|Ch)\. )\d+
titleRegexp(s) ==
    LET starts == {i \in 1..Len(s) : TitleStartAt(s, i) # 0}
    IN  IF starts = {} THEN <<>> ELSE TitleMatchAt(s, Min(starts))

\* re.SubexpNames()
SubexpNames(re) ==
    CASE re = "vol"   -> <<"", "uint">>
      [] re = "chap"  -> <<"", "uint">>
      [] re = "abs"   -> <<"", "uint">>
      [] re = "pnum"  -> <<"", "", "">>
      [] re = "title" -> <<"", "title">>

\* re.FindStringSubmatch(s)
FindStringSubmatch(re, s) ==
    CASE re = "vol"   -> volRegexp(s)
      [] re = "chap"  -> chapRegexp(s)
      [] re = "abs"   -> absRegexp(s)
      [] re = "pnum"  -> pnumRegexp(s)
      [] re = "title" -> titleRegexp(s)

----------------------------------------------------------------------------
(* parser.go *)

\* A call's outcome: a value, or a panic.
Value(v) == [panicked |-> FALSE, val |-> v]

Panic(msg) == [panicked |-> TRUE, val |-> msg]

\* r, err := strconv.ParseUint(...); if err != nil { panic(msg) }
uintOrPanic(r, msg) == IF r.err # "nil" THEN Panic(msg) ELSE Value(r.val)

parseUintFromRegex(s, re, defaultValue) ==
    LET match == FindStringSubmatch(re, s)
        names == SubexpNames(re)
        hits == {i \in 1..Len(names) : names[i] = "uint"}
    IN  IF Len(match) = 0 THEN Value(defaultValue)
        ELSE IF hits = {}
             THEN Panic("parseUintFromRegex: unable to find capture group")
        ELSE uintOrPanic(ParseUint(match[Min(hits)]),
                         "parseUintFromRegex: unable to parse uint from string")

parseString(s, re) ==
    LET match == FindStringSubmatch(re, s)
    IN  IF Len(match) = 0 \/ Len(match) < 2 THEN <<>> ELSE match[2]

\* strings.ReplaceAll(s, "_", " ")
ReplaceUnderscores(s) ==
    IF s = <<>> THEN <<>>
    ELSE [i \in 1..Len(s) |-> IF s[i] = "_" THEN " " ELSE s[i]]

\* The loop of parse over the groups of pnumRegexp's match: the state after
\* the groups from index i on, starting from acc.
RECURSIVE pnumLoop(_, _, _)
pnumLoop(match, i, acc) ==
    IF i > Len(match) \/ acc.panicked THEN acc
    ELSE IF match[i] = <<>> \/ i = 1 THEN pnumLoop(match, i + 1, acc)
    ELSE pnumLoop(match, i + 1,
                  uintOrPanic(ParseUint(match[i]),
                              "parse: unable to parse page number from string"))

\* parse once its five extractions are made, in the order the code makes
\* them: volume, chapter, absolute page number, title, page number.
parseFrom(s, vol, chap, abs, ttl, pnum) ==
    IF vol.panicked THEN vol
    ELSE IF chap.panicked THEN chap
    ELSE IF abs.panicked THEN abs
    ELSE IF pnum.panicked THEN pnum
    ELSE Value([FileName |-> s,
                Title |-> ttl,
                AbsolutePageNumber |-> abs.val,
                PageNumber |-> pnum.val,
                Volume |-> vol.val,
                Chapter |-> chap.val])

parse(s) ==
    parseFrom(s,
              parseUintFromRegex(s, "vol", Zero),
              parseUintFromRegex(s, "chap", Zero),
              parseUintFromRegex(s, "abs", MaxUint64),
              ReplaceUnderscores(parseString(s, "title")),
              pnumLoop(FindStringSubmatch("pnum", s), 1, Value(MaxUint64)))

\* Parse once parse has run on the name.
ParseFrom(p) ==
    IF p.panicked THEN p
    ELSE IF p.val.Title = <<>>
         THEN Value([page |-> p.val, err |-> TRUE])
         ELSE Value([page |-> p.val, err |-> FALSE])

\* Parse: a panic of parse, or the page and whether the error is non-nil.
Parse(s) == ParseFrom(parse(s))

----------------------------------------------------------------------------
(* The parser run: Parse applied to one file name. *)

\* The file names of TestParse.
TestName1 == <<"[","R","e","l","e","a","s","e","r","]"," ","A"," ","R","a","n","d","o","m"," ","N","a","m","e"," ","V","o","l","."," ","1"," ","C","h","a","p","t","e","r","."," ","0","1",".","j","p","g">>

TestName2 == <<"0","0","0","1","_","A","_","S","e","r","i","e","s","_","n","a","m","e","_","c","0","0","1","_","v","0","1","_","p","0","0","0","_","S","o","u","r","c","e","_","Q","u","a","l","i","t","y","_","R","e","l","e","a","s","e",".","j","p","g">>

TestName3 == <<"1","0","0","9","_","A","_","R","a","n","d","o","m","_","N","a","m","e","_","c","1","1","8","_","v","1","4","_","R","e","l","e","a","s","e","r","_","H","Q","_","6","0",".","j","p","g">>

TestNames == {TestName1, TestName2, TestName3}

\* Digit runs: 2^64 - 1, 2^64, and twenty nines.
RunMax == <<"1","8","4","4","6","7","4","4","0","7","3","7","0","9","5","5","1","6","1","5">>

RunOver == <<"1","8","4","4","6","7","4","4","0","7","3","7","0","9","5","5","1","6","1","6">>

RunBig == <<"9","9","9","9","9","9","9","9","9","9","9","9","9","9","9","9","9","9","9","9">>

MaxTokens == 4

MaxWords == 2

RECURSIVE Flatten(_)
Flatten(ss) == IF ss = <<>> THEN <<>> ELSE Head(ss) \o Flatten(Tail(ss))

SeqsUpTo(S, n) == UNION {[1..k -> S] : k \in 0..n}

\* Names built from a few lexemes, in every order.
Tokens == {<<"a","b">>, <<"_">>, <<"p">>, <<"p","1">>, <<"1">>, <<"2","0">>,
           <<".">>, <<".","j">>, RunBig}

TokenNames == {Flatten(ts) : ts \in SeqsUpTo(Tokens, MaxTokens)}

\* Names around one volume or chapter marker.
MarkerNames ==
    {Flatten(<<pre, tok, sep, run, post>>) :
        pre \in {<<>>, <<"a","_">>, <<"c","_","V","o","l","u","_">>},
        tok \in {Vol, Volume, <<"v">>, <<"V">>, <<"v","o","l">>, Ch, Chapter, <<"c">>, <<"C">>},
        sep \in {<<>>, <<"."," ">>, <<".">>, <<" ">>, <<".","\t">>, <<"."," "," ">>},
        run \in {<<>>, <<"1">>, <<"0","0","7">>, RunMax, RunOver},
        post \in {<<>>, <<".","j">>, <<"_","v","2","c","3">>}}

\* Names <A>_<W1>_..._<Wn>_c<C>_v<V>_<rest>.
ShapeWords == {<<"a">>, <<"c","v","p">>, <<"V","o","l">>, <<"i","t","'","s">>}

ShapeRests ==
    {<<>>, <<".","j">>, <<"p","5",".","j">>, <<"x","_","p","0","5","_","y",".","j">>,
     <<"H","Q","_","6","0",".","j","p","g">>, <<"p","1","_","p","2",".","j">>,
     <<"p","3","_","a","b","4",".","j">>, <<"v","9","_","c","9","_","z","8">>,
     <<"p">> \o RunBig \o <<".","j">>, <<"a","b">> \o RunBig \o <<".","j">>,
     <<"p","1","_","a","b">> \o RunBig \o <<".","j">>}

RECURSIVE JoinWords(_)
JoinWords(ws) ==
    IF Len(ws) = 1 THEN Head(ws) ELSE Head(ws) \o <<"_">> \o JoinWords(Tail(ws))

ShapeNames ==
    {Flatten(<<a, <<"_">>, JoinWords(ws), <<"_","c">>, c, <<"_","v">>, v, <<"_">>, rest>>) :
        a \in {<<"1">>, <<"0","0","7">>},
        ws \in SeqsUpTo(ShapeWords, MaxWords) \ {<<>>},
        c \in {<<"1">>, <<"0","2","0">>},
        v \in {<<"3">>, RunMax},
        rest \in ShapeRests}

ParserInputs == TestNames \cup TokenNames \cup MarkerNames \cup ShapeNames

NoReturn == [page |-> <<>>, err |-> FALSE]

\* The CLI run's variables, before main starts.
MainIdle ==
    /\ dir = <<>>
    /\ pc = "idle"
    /\ pages = <<>>
    /\ title = <<>>
    /\ volMap = <<>>
    /\ volsLeft = {}
    /\ curVol = Zero
    /\ chapMap = <<>>
    /\ chapsLeft = {}
    /\ outputDir = FALSE
    /\ archives = <<>>
    /\ writes = <<>>
    /\ exitCode = 0
    /\ status = -1

InitParser ==
    /\ name \in ParserInputs
    /\ ppc = "call"
    /\ ret = NoReturn
    /\ MainIdle

\* Parse returns.
ParseReturns ==
    /\ ppc = "call"
    /\ ~Parse(name).panicked
    /\ ppc' = "returned"
    /\ ret' = Parse(name).val
    /\ UNCHANGED <<name, mainVars>>

\* Parse panics.
ParsePanics ==
    /\ ppc = "call"
    /\ Parse(name).panicked
    /\ ppc' = "panicked"
    /\ UNCHANGED <<name, ret, mainVars>>

NextParser == ParseReturns \/ ParsePanics

SpecParser == InitParser /\ [][NextParser]_vars

----------------------------------------------------------------------------
(* TestParse (parser_test.go) *)

Str1 == <<"A"," ","R","a","n","d","o","m"," ","N","a","m","e">>

Str2 == <<"A"," ","S","e","r","i","e","s"," ","n","a","m","e">>

ExpectedPage(fileName, ttl, vol, chap, pnum, abs) ==
    [FileName |-> fileName, Title |-> ttl, Volume |-> vol, Chapter |-> chap,
     PageNumber |-> pnum, AbsolutePageNumber |-> abs]

\* The three cases of TestParse pass.
TestParse ==
    ppc # "call" =>
        /\ name = TestName1 =>
            ppc = "returned" /\ ret.page = ExpectedPage(name, Str1, <<1>>, <<1>>, MaxUint64, MaxUint64)
        /\ name = TestName2 =>
            ppc = "returned" /\ ret.page = ExpectedPage(name, Str2, <<1>>, <<1>>, Zero, <<1>>)
        /\ name = TestName3 =>
            ppc = "returned" /\ ret.page = ExpectedPage(name, Str1, <<1,4>>, <<1,1,8>>, <<6,0>>, <<1,0,0,9>>)

----------------------------------------------------------------------------
(* What the properties of the parser speak of, read off the file name. *)

\* The value a digit run denotes.
DecimalValue(run) == StripZeros([i \in 1..Len(run) |-> DigitVal(run[i])])

Fits64(run) == ~UintLess(MaxUint64, DecimalValue(run))

\* The digit run that starts at b.
RunAt(s, b) == Slice(s, b, DigitRunEnd(s, b))

\* Where a 'p' stands immediately before a digit.
PMarkers(s) == {i \in 1..Len(s) : s[i] = "p" /\ IsDigit(At(s, i + 1))}

\* Where the digit run starts when the name ends with two characters that
\* are neither a dot nor a digit, one or more digits, a dot and one or more
\* letters.
SuffixRuns(s) ==
    {b \in 3..Len(s) :
        /\ NotDotDigit(s[b - 2])
        /\ NotDotDigit(s[b - 1])
        /\ IsDigit(s[b])
        /\ LET e == DigitRunEnd(s, b)
           IN  /\ At(s, e) = "."
               /\ e < Len(s)
               /\ \A j \in (e + 1)..Len(s) : IsLetter(s[j])}

\* Where the digit run of a marker starts: one of the tokens at i, optionally
\* a period and one of the spaces, then a digit.
MarkerRunsAt(s, i, tokens, spaces) ==
    {b \in i..Len(s) : \E t \in tokens :
        /\ HasPrefixAt(s, i, t)
        /\ IsDigit(s[b])
        /\ \/ b = i + Len(t)
           \/ b = i + Len(t) + 2 /\ s[b - 2] = "." /\ s[b - 1] \in spaces}

MarkerStarts(s, tokens, spaces) ==
    {i \in 1..Len(s) : MarkerRunsAt(s, i, tokens, spaces) # {}}

\* The digit run of the leftmost marker, <<>> without a marker.
MarkerRun(s, tokens, spaces) ==
    IF MarkerStarts(s, tokens, spaces) = {} THEN <<>>
    ELSE RunAt(s, Min(MarkerRunsAt(s, Min(MarkerStarts(s, tokens, spaces)), tokens, spaces)))

MarkerValue(s, tokens, spaces) ==
    IF MarkerRun(s, tokens, spaces) = <<>> THEN Zero
    ELSE DecimalValue(MarkerRun(s, tokens, spaces))

VolumeTokens == {Vol, Volume, <<"v">>}

ChapterTokens == {Ch, Chapter, <<"c">>}

SingleSpace == {" "}

Whitespace == {" ", "\t", "\n", "\f", "\r"}

\* The leading digit run.
LeadingRun(s) == IF IsDigit(At(s, 1)) THEN RunAt(s, 1) ELSE <<>>

\* The title the title expression infers.
InferredTitle(s) == ReplaceUnderscores(parseString(s, "title"))

\* parse converts a digit run that does not fit 64 bits: the volume's, the
\* chapter's, the leading one, or the one of the first page-number match.
Overflows(s) ==
    \/ ~Fits64(MarkerRun(s, VolumeTokens, Whitespace))
    \/ ~Fits64(MarkerRun(s, ChapterTokens, Whitespace))
    \/ ~Fits64(LeadingRun(s))
    \/ /\ PMarkers(s) # {}
       /\ \A b \in SuffixRuns(s) : Min(PMarkers(s)) < b - 2
       /\ ~Fits64(RunAt(s, Min(PMarkers(s)) + 1))
    \/ \E b \in SuffixRuns(s) :
        /\ \A i \in PMarkers(s) : b - 2 < i
        /\ ~Fits64(RunAt(s, b))

\* parse panics exactly on the names with a digit run that overflows.
PanicsOnOverflowOnly ==
    /\ ppc = "panicked" => Overflows(name)
    /\ ppc = "returned" => ~Overflows(name)

----------------------------------------------------------------------------
(* Properties of the parser, checked under SpecParser. *)

\* C1: for every file name, Parse returns an error exactly when the inferred
\* title is empty; the record it returns is the one parse computes, with
\* FileName the input verbatim, so a nil error implies a non-empty Title.
C1_ErrorIffTitleEmpty ==
    ppc # "call" =>
        /\ (ppc = "returned" /\ ret.err) <=> (InferredTitle(name) = <<>>)
        /\ ppc = "returned" =>
            /\ ret.page = parse(name).val
            /\ ret.page.FileName = name
            /\ ~ret.err => ret.page.Title # <<>>

\* C1 for the calls that return.
C1_WhenParseReturns ==
    ppc = "returned" =>
        /\ ret.err <=> (InferredTitle(name) = <<>>)
        /\ ret.page = parse(name).val
        /\ ret.page.FileName = name
        /\ ~ret.err => ret.page.Title # <<>>

\* A word of a title: a non-empty run of letters and apostrophes.
WordChar(c) == IsLetter(c) \/ c = "'"

\* s[b..e-1] is W1_..._Wn.
IsWords(s, b, e) ==
    /\ b < e
    /\ \A j \in b..(e - 1) : WordChar(s[j]) \/ s[j] = "_"
    /\ s[b] # "_" /\ s[e - 1] # "_"
    /\ \A j \in b..(e - 2) : ~(s[j] = "_" /\ s[j + 1] = "_")

\* The reading of s as <A>_<W1>_..._<Wn>_c<C>_v<V>_<rest> whose words end
\* before k: where A ends, and where C, V and <rest> start.
Reading(s, k) ==
    LET cEnd == DigitRunEnd(s, k + 2)
        vEnd == DigitRunEnd(s, cEnd + 2)
    IN  [a |-> DigitRunEnd(s, 1), k |-> k, c |-> k + 2, v |-> cEnd + 2, rest |-> vEnd + 1]

\* The readings of s in that shape, A, C and V fitting 64 bits.
ShapeReadings(s) ==
    {Reading(s, k) : k \in
        {k \in 1..Len(s) :
            LET r == Reading(s, k)
            IN  /\ r.a > 1 /\ At(s, r.a) = "_"
                /\ IsWords(s, r.a + 1, k)
                /\ At(s, k) = "_" /\ At(s, k + 1) = "c" /\ IsDigit(At(s, r.c))
                /\ At(s, r.v - 2) = "_" /\ At(s, r.v - 1) = "v" /\ IsDigit(At(s, r.v))
                /\ At(s, r.rest - 1) = "_"
                /\ Fits64(RunAt(s, 1)) /\ Fits64(RunAt(s, r.c)) /\ Fits64(RunAt(s, r.v))}}

\* The p<P> markers of <rest>.
RestMarkers(s, r) == {i \in PMarkers(s) : i >= r.rest}

ShapeFields(s, r, page) ==
    /\ page.Title = ReplaceUnderscores(Slice(s, r.a + 1, r.k))
    /\ page.Chapter = DecimalValue(RunAt(s, r.c))
    /\ page.Volume = DecimalValue(RunAt(s, r.v))
    /\ page.AbsolutePageNumber = DecimalValue(RunAt(s, 1))
    /\ RestMarkers(s, r) # {} =>
        page.PageNumber = DecimalValue(RunAt(s, Min(RestMarkers(s, r)) + 1))

\* C2: for every name <A>_<W1>_..._<Wn>_c<C>_v<V>_<rest> with A, C, V fitting
\* 64 bits, parse yields Title = the words joined by single spaces,
\* Chapter = C, Volume = V, AbsolutePageNumber = A, whatever <rest> holds,
\* and PageNumber = P when <rest> holds a p<P> marker (its first one).
C2_ShapeFields ==
    ppc # "call" =>
        \A r \in ShapeReadings(name) : ppc = "returned" /\ ShapeFields(name, r, ret.page)

\* C2 for the calls that return.
C2_WhenParseReturns ==
    ppc = "returned" => \A r \in ShapeReadings(name) : ShapeFields(name, r, ret.page)

\* The page number the suffix form gives a name without p<digits> marker.
SuffixPageNumber(s) ==
    IF SuffixRuns(s) = {} THEN MaxUint64
    ELSE DecimalValue(RunAt(s, Min(SuffixRuns(s))))

\* C3: for every name without a 'p' immediately before a digit, PageNumber
\* is the value of the digit run before the final extension if the name ends
\* with two characters neither dot nor digit, digits, a dot and letters, and
\* the UNDETERMINED sentinel in every other case.
C3_SuffixPageNumber ==
    (ppc # "call" /\ PMarkers(name) = {}) =>
        ppc = "returned" /\ ret.page.PageNumber = SuffixPageNumber(name)

\* C3 for the calls that return.
C3_WhenParseReturns ==
    (ppc = "returned" /\ PMarkers(name) = {}) =>
        ret.page.PageNumber = SuffixPageNumber(name)

\* C5: parse returns a record for every input, digit runs beyond 64 bits
\* included: it never panics.
C5_NeverPanics == ppc # "panicked"

\* C6: Volume is the value of the digit run of the leftmost match of Vol,
\* Volume or v, optionally a period and a single space, then digits, and 0
\* without a match; Chapter the same with Ch, Chapter, c; each whatever the
\* other extractors find.
C6_VolumeChapter ==
    ppc # "call" =>
        /\ ppc = "returned"
        /\ ret.page.Volume = MarkerValue(name, VolumeTokens, SingleSpace)
        /\ ret.page.Chapter = MarkerValue(name, ChapterTokens, SingleSpace)

\* C6 for the calls that return, the space being any character of \s.
C6_WhenParseReturns ==
    ppc = "returned" =>
        /\ ret.page.Volume = MarkerValue(name, VolumeTokens, Whitespace)
        /\ ret.page.Chapter = MarkerValue(name, ChapterTokens, Whitespace)

\* C6 for the calls that return, the space being a space only.
C6_WhenParseReturnsSingleSpace ==
    ppc = "returned" =>
        /\ ret.page.Volume = MarkerValue(name, VolumeTokens, SingleSpace)
        /\ ret.page.Chapter = MarkerValue(name, ChapterTokens, SingleSpace)

\* A name has several page-number candidates: two or more p<digits>
\* markers, or a p<digits> marker and, later, a digit run right before the
\* extension.
SeveralCandidates(s) ==
    \/ Cardinality(PMarkers(s)) >= 2
    \/ \E i \in PMarkers(s) : \E b \in SuffixRuns(s) : i + 1 < b

\* The candidate nearest the extension.
RightmostCandidate(s) ==
    IF SuffixRuns(s) # {} THEN RunAt(s, Min(SuffixRuns(s)))
    ELSE RunAt(s, (CHOOSE i \in PMarkers(s) : \A j \in PMarkers(s) : j <= i) + 1)

\* The first p<digits> marker.
LeftmostMarker(s) == RunAt(s, Min(PMarkers(s)) + 1)

\* C4 as stated: with several page-number candidates, PageNumber is the
\* value of the rightmost one, the one nearest the extension.
C4_RightmostCandidateWins ==
    (ppc = "returned" /\ SeveralCandidates(name)) =>
        ret.page.PageNumber = DecimalValue(RightmostCandidate(name))

\* C4 as amended: with several page-number candidates, PageNumber is the
\* value of the first (leftmost) p<digits> marker; parse panics instead
\* exactly when a digit run it converts does not fit 64 bits.
C4_LeftmostMarkerWins ==
    (ppc # "call" /\ SeveralCandidates(name)) =>
        IF Overflows(name) THEN ppc = "panicked"
        ELSE /\ ppc = "returned"
             /\ ret.page.PageNumber = DecimalValue(LeftmostMarker(name))

\* C4's case: Parse returned for a name whose first marker and rightmost
\* candidate differ in value.
C4_Witness ==
    /\ ppc = "returned"
    /\ SeveralCandidates(name)
    /\ DecimalValue(LeftmostMarker(name)) # DecimalValue(RightmostCandidate(name))
    /\ ret.page.PageNumber = DecimalValue(LeftmostMarker(name))

----------------------------------------------------------------------------
(* The CLI run (main.go) *)

\* The characters of file names in byte order (os.ReadDir sorts by name).
ByteOrder == <<"\t", "\n", "\f", "\r", " ", "'", ".">> \o DigitSeq \o UpperSeq
                 \o <<"[", "]", "_">> \o LowerSeq

CharRank(c) == CHOOSE i \in 1..Len(ByteOrder) : ByteOrder[i] = c

\* a sorts before b
NameLess(a, b) ==
    \/ Len(a) < Len(b) /\ \A j \in 1..Len(a) : a[j] = b[j]
    \/ \E i \in 1..Len(a) :
        /\ i <= Len(b)
        /\ CharRank(a[i]) < CharRank(b[i])
        /\ \A j \in 1..(i - 1) : a[j] = b[j]

\* The entries of S in the order os.ReadDir returns them.
RECURSIVE SortedEntries(_)
SortedEntries(S) ==
    IF S = {} THEN <<>>
    ELSE LET first == CHOOSE e \in S : \A f \in S \ {e} : NameLess(e.Name, f.Name)
         IN  <<first>> \o SortedEntries(S \ {first})

File(n) == [Name |-> n, IsDir |-> FALSE]

Directory(n) == [Name |-> n, IsDir |-> TRUE]

DSStore == <<".","D","S","_","S","t","o","r","e">>

\* What the working directory may hold.
Candidates ==
    {File(<<"a","_","v","1","_","c","1","_","p","1",".","j">>),
     File(<<"a","_","v","1","_","c","1","_","p","2",".","j">>),
     File(<<"a","_","v","1","_","c","2","_","p","1",".","j">>),
     File(<<"a","_","v","2","_","p","1",".","j">>),
     File(<<"1","_","a","_","v","2","_","p","1",".","j">>),
     File(<<"a","_","v","1","_","c","0","1","_","p","1",".","j">>),
     File(<<"b","_","v","1","_","c","1","_","p","1",".","j">>),
     File(<<"a","_","v","1","_","c","1","_","x",".","j">>),
     File(<<"z","z","z">>),
     File(<<"a","_","v","1","_","p">> \o RunBig \o <<".","j">>),
     File(<<"a","_","v">> \o RunMax \o <<"_","p","1",".","j">>),
     File(DSStore),
     Directory(<<"o","u","t","p","u","t">>)}

MaxFiles == 3

Directories ==
    {SortedEntries(S) : S \in {S \in SUBSET Candidates : Cardinality(S) <= MaxFiles}}

\* f with key k set to v
Put(f, k, v) == [x \in DOMAIN f \cup {k} |-> IF x = k THEN v ELSE f[x]]

\* The loop of main over files from index i on, acc the pages so far:
\* how it ends ("done", "error" of Parse, "panic" of Parse) and the pages.
RECURSIVE parseLoop(_, _, _)
\* The loop's body at index i once Parse has given p.
parseLoopBody(files, i, acc, p) ==
    IF p.panicked THEN [end |-> "panic", pages |-> acc]
    ELSE IF p.val.err THEN [end |-> "error", pages |-> acc]
    ELSE parseLoop(files, i + 1, Append(acc, p.val.page))

parseLoop(files, i, acc) ==
    IF i > Len(files) THEN [end |-> "done", pages |-> acc]
    ELSE IF files[i].IsDir \/ files[i].Name = DSStore THEN parseLoop(files, i + 1, acc)
    ELSE parseLoopBody(files, i, acc, Parse(files[i].Name))

\* The checks of main on one page: "" when it passes.
pageFault(p, ttl) ==
    IF p.Title # ttl THEN "title mismatch"
    ELSE IF p.Volume = MaxUint64 THEN "unable to determine volume"
    ELSE IF p.PageNumber = MaxUint64 THEN "unable to determine page number"
    ELSE IF p.Chapter = MaxUint64 THEN "unable to determine chapter"
    ELSE ""

\* volMap[p.Volume] = append(volMap[p.Volume], p)
appendPage(vm, p) ==
    Put(vm, p.Volume, Append(IF p.Volume \in DOMAIN vm THEN vm[p.Volume] ELSE <<>>, p))

\* The validation loop of main over ps from index i on, vm the volMap so
\* far: the fault it stops at ("" when every page passes) and the volMap
\* at that point.
RECURSIVE validateLoop(_, _, _, _)
validateLoop(ps, i, ttl, vm) ==
    IF i > Len(ps) THEN [fault |-> "", volMap |-> vm]
    ELSE IF pageFault(ps[i], ttl) # "" THEN [fault |-> pageFault(ps[i], ttl), volMap |-> vm]
    ELSE validateLoop(ps, i + 1, ttl, appendPage(vm, ps[i]))

\* chapMap of the pages of one volume.
groupByChapter(ps) ==
    [c \in {ps[i].Chapter : i \in 1..Len(ps)} |->
        LET InChapter(p) == p.Chapter = c IN SelectSeq(ps, InChapter)]

Cbz == <<".","c","b","z">>

\* outputName without the chapter suffix.
outputNameNoChapter(ttl, vol, chap) ==
    (ttl \o <<" ","V","o","l",".">> \o FormatUint(vol)) \o Cbz

\* outputName of main
outputName(ttl, vol, chap) ==
    (ttl \o <<" ","V","o","l",".">> \o FormatUint(vol))
        \o (IF chap # Zero THEN <<" ","C","h",".">> \o FormatUint(chap) ELSE <<>>)
        \o Cbz

\* filepath.Ext
Ext(n) ==
    LET dots == {i \in 1..Len(n) : n[i] = "."}
    IN  IF dots = {} THEN <<>>
        ELSE SubSeq(n, CHOOSE i \in dots : \A j \in dots : j <= i, Len(n))

\* savePath of writePages
savePath(p) == <<"I","m","a","g","e"," ">> \o FormatUint(p.PageNumber) \o Ext(p.FileName)

Entry(p, content) == [Name |-> savePath(p), Src |-> p.FileName, Content |-> content]

\* Where a call of writePages may fail: nowhere, at os.MkdirAll, at
\* os.Create, for its k-th page at zw.Create, os.Open or io.Copy, or in the
\* deferred zw.Close() and out.Close(), whose errors are discarded.
FailPoints(ps) ==
    {<<"none", 0>>, <<"mkdir", 0>>, <<"create", 0>>, <<"close", 0>>}
        \cup ({"zip", "open", "copy"} \X (1..Len(ps)))

\* The pages ps[1..n] stored in the archive.
copied(ps, n) == [i \in 1..n |-> Entry(ps[i], "copied")]

\* writePages failing at fail: whether it returns an error, whether
\* ./output exists afterwards, and the archive file it leaves, if it created
\* one: its entries and whether it is a complete zip file (every entry
\* copied and the central directory written).
writePages(ps, fail, hadOutputDir) ==
    CASE fail[1] = "mkdir" ->
            [err |-> TRUE, outputDir |-> hadOutputDir, created |-> FALSE,
             complete |-> FALSE, entries |-> <<>>]
      [] fail[1] = "create" ->
            [err |-> TRUE, outputDir |-> TRUE, created |-> FALSE,
             complete |-> FALSE, entries |-> <<>>]
      [] fail[1] = "zip" ->
            [err |-> TRUE, outputDir |-> TRUE, created |-> TRUE,
             complete |-> FALSE, entries |-> copied(ps, fail[2] - 1)]
      [] fail[1] = "open" ->
            [err |-> TRUE, outputDir |-> TRUE, created |-> TRUE, complete |-> FALSE,
             entries |-> Append(copied(ps, fail[2] - 1), Entry(ps[fail[2]], "empty"))]
      [] fail[1] = "copy" ->
            [err |-> TRUE, outputDir |-> TRUE, created |-> TRUE, complete |-> FALSE,
             entries |-> Append(copied(ps, fail[2] - 1), Entry(ps[fail[2]], "partial"))]
      [] fail[1] = "close" ->
            [err |-> FALSE, outputDir |-> TRUE, created |-> TRUE,
             complete |-> FALSE, entries |-> copied(ps, Len(ps))]
      [] fail[1] = "none" ->
            [err |-> FALSE, outputDir |-> TRUE, created |-> TRUE,
             complete |-> TRUE, entries |-> copied(ps, Len(ps))]

\* Whether the working directory holds a directory named output.
HasOutput(d) == \E i \in 1..Len(d) : d[i].IsDir /\ d[i].Name = <<"o","u","t","p","u","t">>

\* An archive file left in ./output by an earlier run.
Stale == [entries |-> <<>>, complete |-> TRUE, run |-> FALSE]

\* What ./output may hold before the run: nothing, a file the run will not
\* name, or a file under a name the run may write.
Existing ==
    {<<>>,
     Put(<<>>, <<"o","l","d",".","c","b","z">>, Stale),
     Put(<<>>, <<"a"," ","V","o","l",".","1"," ","C","h",".","1",".","c","b","z">>, Stale)}

ParserIdle ==
    /\ name = <<>>
    /\ ppc = "idle"
    /\ ret = NoReturn

InitMain ==
    /\ ParserIdle
    /\ dir \in Directories
    /\ pc = "start"
    /\ pages = <<>>
    /\ title = <<>>
    /\ volMap = <<>>
    /\ volsLeft = {}
    /\ curVol = Zero
    /\ chapMap = <<>>
    /\ chapsLeft = {}
    /\ outputDir = HasOutput(dir)
    /\ archives \in (IF HasOutput(dir) THEN Existing ELSE {<<>>})
    /\ writes = <<>>
    /\ exitCode = 0
    /\ status = -1

\* fatal, then return: the deferred os.Exit(int(exitCode)).
FatalExit ==
    /\ exitCode' = 1
    /\ status' = 1
    /\ pc' = "exited"

\* os.ReadDir fails.
ReadDirFails ==
    /\ pc = "start"
    /\ FatalExit
    /\ UNCHANGED <<parserVars, dir, pages, title, volMap, volsLeft, curVol, chapMap,
                   chapsLeft, outputDir, archives, writes>>

\* What main does once the loop over the files has ended as r.  A panic of
\* Parse runs the deferred os.Exit(int(exitCode)) with exitCode still 0.
AfterParseLoop(r) ==
    /\ pages' = r.pages
    /\ CASE r.end = "panic" ->
             /\ status' = exitCode
             /\ pc' = "exited"
             /\ UNCHANGED exitCode
         [] r.end = "error" -> FatalExit
         [] r.end = "done" /\ Len(r.pages) = 0 -> FatalExit
         [] OTHER ->
             /\ pc' = "validate"
             /\ UNCHANGED <<exitCode, status>>

\* os.ReadDir succeeds and main parses every file.
ParseFiles ==
    /\ pc = "start"
    /\ AfterParseLoop(parseLoop(dir, 1, <<>>))
    /\ UNCHANGED <<parserVars, dir, title, volMap, volsLeft, curVol, chapMap,
                   chapsLeft, outputDir, archives, writes>>

\* What main does once the validation loop has ended as r.
AfterValidateLoop(r) ==
    /\ volMap' = r.volMap
    /\ IF r.fault # ""
       THEN /\ FatalExit
            /\ UNCHANGED volsLeft
       ELSE /\ volsLeft' = DOMAIN r.volMap
            /\ pc' = "volumes"
            /\ UNCHANGED <<exitCode, status>>

\* main checks every page and fills volMap, page by page.
ValidatePages ==
    /\ pc = "validate"
    /\ title' = pages[1].Title
    /\ AfterValidateLoop(validateLoop(pages, 1, pages[1].Title, <<>>))
    /\ UNCHANGED <<parserVars, dir, pages, curVol, chapMap, chapsLeft, outputDir,
                   archives, writes>>

\* The outer range loop takes a volume, in the order the map gives.
NextVolume ==
    /\ pc = "volumes"
    /\ \E vol \in volsLeft :
        /\ curVol' = vol
        /\ volsLeft' = volsLeft \ {vol}
        /\ chapMap' = groupByChapter(volMap[vol])
        /\ chapsLeft' = DOMAIN chapMap'
    /\ pc' = "chapters"
    /\ UNCHANGED <<parserVars, dir, pages, title, volMap, outputDir, archives,
                   writes, exitCode, status>>

\* What the call of writePages for chap leaves as w, and what main does
\* next: os.Create truncates a file of the same name.
AfterWritePages(chap, out, w) ==
    /\ outputDir' = w.outputDir
    /\ archives' = IF w.created
                   THEN Put(archives, out, [entries |-> w.entries,
                                            complete |-> w.complete, run |-> TRUE])
                   ELSE archives
    /\ writes' = Append(writes, [name |-> out, vol |-> curVol, chap |-> chap,
                                 ok |-> ~w.err, created |-> w.created,
                                 complete |-> w.complete, entries |-> w.entries])
    /\ chapsLeft' = chapsLeft \ {chap}
    /\ IF w.err THEN FatalExit
       ELSE /\ pc' = IF chapsLeft' = {} THEN "volumes" ELSE "chapters"
            /\ UNCHANGED <<exitCode, status>>

\* The inner range loop takes a chapter, in the order the map gives, and
\* writes its archive.
WriteChapter ==
    /\ pc = "chapters"
    /\ \E chap \in chapsLeft : \E fail \in FailPoints(chapMap[chap]) :
        AfterWritePages(chap, outputName(title, curVol, chap),
                        writePages(chapMap[chap], fail, outputDir))
    /\ UNCHANGED <<parserVars, dir, pages, title, volMap, volsLeft, curVol, chapMap>>

\* Every volume is written: main returns, and the deferred os.Exit runs.
Finish ==
    /\ pc = "volumes"
    /\ volsLeft = {}
    /\ status' = exitCode
    /\ pc' = "exited"
    /\ UNCHANGED <<parserVars, dir, pages, title, volMap, volsLeft, curVol, chapMap,
                   chapsLeft, outputDir, archives, writes, exitCode>>

Next == ReadDirFails \/ ParseFiles \/ ValidatePages \/ NextVolume \/ WriteChapter \/ Finish

Spec == InitMain /\ [][Next]_vars

----------------------------------------------------------------------------
(* Properties of the CLI run, checked under Spec. *)

\* The entries main hands to Parse.
IsConsidered(e) == ~e.IsDir /\ e.Name # DSStore

ParsePanicsOn(e) == Parse(e.Name).panicked

ParseFailsOn(e) == ~Parse(e.Name).panicked /\ Parse(e.Name).val.err

ParseAccepts(e) == IsConsidered(e) /\ ~Parse(e.Name).panicked /\ ~Parse(e.Name).val.err

\* The entries Parse accepts, parsed.
ParsedEntries(d) ==
    LET ok == SelectSeq(d, ParseAccepts)
    IN  [i \in 1..Len(ok) |-> Parse(ok[i].Name).val.page]

\* A file fails Parse, or a parsed entry differs in Title from the first,
\* or has the UNDETERMINED PageNumber.
FailsValidation(d) ==
    \/ \E i \in 1..Len(d) : IsConsidered(d[i]) /\ ParseFailsOn(d[i])
    \/ \E i \in 1..Len(ParsedEntries(d)) :
        \/ ParsedEntries(d)[i].Title # ParsedEntries(d)[1].Title
        \/ ParsedEntries(d)[i].PageNumber = MaxUint64

\* The names of the archive files this run created.
WrittenByRun == {n \in DOMAIN archives : archives[n].run}

NoParsePanics(d) == \A i \in 1..Len(d) : IsConsidered(d[i]) => ~ParsePanicsOn(d[i])

\* C7: if any file fails Parse, or any entry's Title differs from the
\* first's, or any entry's PageNumber is UNDETERMINED, the run creates no
\* archive at all and exits with a non-zero status.
C7_NoOutputOnInvalidSet ==
    FailsValidation(dir) =>
        /\ writes = <<>> /\ WrittenByRun = {} /\ outputDir = HasOutput(dir)
        /\ pc = "exited" => status # 0

\* C7 for the directories on whose names Parse does not panic.
C7_WhenNoParsePanics ==
    (FailsValidation(dir) /\ NoParsePanics(dir)) =>
        /\ writes = <<>> /\ WrittenByRun = {} /\ outputDir = HasOutput(dir)
        /\ pc = "exited" => status # 0

\* The archive name of bucket (v, c) of title T.
ArchiveName(t, v, c) ==
    IF c = Zero
    THEN t \o <<" ","V","o","l",".">> \o FormatUint(v) \o <<".","c","b","z">>
    ELSE t \o <<" ","V","o","l",".">> \o FormatUint(v) \o <<" ","C","h",".">>
           \o FormatUint(c) \o <<".","c","b","z">>

\* The (volume, chapter) pairs among the pages.
Buckets(ps) == {<<ps[i].Volume, ps[i].Chapter>> : i \in 1..Len(ps)}

\* The set passed validation.
Validated == pc \in {"volumes", "chapters"} \/ writes # <<>>

\* C8: for a validated set with title T the run writes exactly one archive
\* per (volume, chapter) pair among the entries, named "T Vol.<v> Ch.<c>.cbz",
\* or "T Vol.<v>.cbz" when c is 0; distinct pairs get distinct names.
C8_OneArchivePerBucket ==
    Validated =>
        /\ \A i \in 1..Len(writes) :
            /\ <<writes[i].vol, writes[i].chap>> \in Buckets(pages)
            /\ writes[i].name = ArchiveName(pages[1].Title, writes[i].vol, writes[i].chap)
            /\ \A j \in 1..Len(writes) : i # j =>
                /\ <<writes[i].vol, writes[i].chap>> # <<writes[j].vol, writes[j].chap>>
                /\ writes[i].name # writes[j].name
        /\ (pc = "exited" /\ status = 0) =>
            /\ {<<writes[i].vol, writes[i].chap>> : i \in 1..Len(writes)} = Buckets(pages)
            /\ WrittenByRun = {ArchiveName(pages[1].Title, b[1], b[2]) : b \in Buckets(pages)}
            /\ Cardinality(WrittenByRun) = Cardinality(Buckets(pages))

\* C8's case: a run that ended well after writing a chapterless volume and
\* two chapters of another.
C8_Witness ==
    /\ pc = "exited" /\ status = 0
    /\ Len(writes) = 3
    /\ \E i \in 1..Len(writes) : writes[i].chap = Zero
    /\ \E i, j \in 1..Len(writes) :
        writes[i].vol = writes[j].vol /\ writes[i].chap # writes[j].chap

\* C9: when writing a bucket's archive fails the run stops at that bucket
\* (no later bucket is started), the archives completed before stay as
\* written, and the exit status is non-zero; the exit status is zero only
\* when every bucket was written without error.
C9_StopsAtFailedBucket ==
    /\ \A i \in 1..Len(writes) : ~writes[i].ok =>
        i = Len(writes) /\ pc = "exited" /\ status # 0
    /\ WrittenByRun = {writes[i].name : i \in {j \in 1..Len(writes) : writes[j].created}}
    /\ \A i \in 1..Len(writes) : writes[i].complete =>
        archives[writes[i].name] =
            [entries |-> writes[i].entries, complete |-> TRUE, run |-> TRUE]
    /\ (pc = "exited" /\ status = 0) =>
        /\ \A i \in 1..Len(writes) : writes[i].complete
        /\ \A b \in Buckets(pages) : \E i \in 1..Len(writes) : b = <<writes[i].vol, writes[i].chap>>

\* No call of writePages lost an error of its deferred Close calls.
NoCloseFails == \A i \in 1..Len(writes) : writes[i].ok => writes[i].complete

\* C9 for the directories on whose names Parse does not panic, in the runs
\* where no deferred Close fails.
C9_WhenNoPanicNoCloseFails ==
    (NoParsePanics(dir) /\ NoCloseFails) => C9_StopsAtFailedBucket

\* C9 without the panics alone: main exits 0 over an archive whose deferred
\* Close failed.
C9_WhenNoParsePanics ==
    NoParsePanics(dir) => C9_StopsAtFailedBucket

\* C10: within one archive no two entries have the same name.
C10_DistinctEntryNames ==
    \A n \in WrittenByRun :
        \A i, j \in 1..Len(archives[n].entries) :
            i # j => archives[n].entries[i].Name # archives[n].entries[j].Name

====
